---- MODULE Spec2Model ----
(***************************************************************************)
(* MTG Deck Builder API (src/main.py, src/schemas.py): the deck CRUD       *)
(* handlers over the "deck" collection, the Scryfall proxy handlers and    *)
(* the card data mapper.                                                   *)
(*                                                                         *)
(* Python values are encoded as follows.  Optional[T]: None is <<>> and a  *)
(* value v is <<v>>.  A dict (JSON object, pydantic model, stored          *)
(* document) is a function from its keys (strings) to Optional values, so  *)
(* an absent key and a key holding None (JSON null) stay distinct.         *)
(***************************************************************************)
EXTENDS Integers, Sequences, FiniteSets, TLC

VARIABLES dbConfigured, stamps, deck, nextOid, now, last, served, scryfall

vars == <<dbConfigured, stamps, deck, nextOid, now, last, served, scryfall>>

None == <<>>
Some(v) == <<v>>

Restrict(f, S) == [k \in S |-> f[k]]

\* dict.get(k): the value under k, None when the key is absent.
Get(d, k) == IF k \in DOMAIN d THEN d[k] ELSE None

----------------------------------------------------------------------------
(* Bounds of the model.                                                    *)

\* ObjectIds the store can assign (insert_one assigns a fresh one each time).
MaxDecks == 2
\* Largest reading of the clock (datetime.utcnow()).
MaxTime == 2
\* Requests served in one run.
MaxRequests == 4

----------------------------------------------------------------------------
(* Program constants (src/schemas.py).                                     *)

NameMinLen == 1
NameMaxLen == 120
DescriptionMaxLen == 500
QuantityMin == 1
QuantityMax == 99
QuantityDefault == 1

Formats ==
    {"commander", "modern", "standard", "pioneer", "legacy", "vintage",
     "pauper", "brawl", "historic", "casual"}

----------------------------------------------------------------------------
(* Sample strings: the lengths just past the schema's bounds.       *)

Name121 == "nnnnnnnnnnnnnnnnnnnnnnnnnnnnnnnnnnnnnnnnnnnnnnnnnnnnnnnnnnnnnnnnnnnnnnnnnnnnnnnnnnnnnnnnnnnnnnnnnnnnnnnnnnnnnnnnnnnnnnnnn"
Desc501 == "ddddddddddddddddddddddddddddddddddddddddddddddddddddddddddddddddddddddddddddddddddddddddddddddddddddddddddddddddddddddddddddddddddddddddddddddddddddddddddddddddddddddddddddddddddddddddddddddddddddddddddddddddddddddddddddddddddddddddddddddddddddddddddddddddddddddddddddddddddddddddddddddddddddddddddddddddddddddddddddddddddddddddddddddddddddddddddddddddddddddddddddddddddddddddddddddddddddddddddddddddddddddddddddddddddddddddddddddddddddddddddddddddddddddddddddddddddddddddddddddddddddddddddddddddddddd"

----------------------------------------------------------------------------
(* Identifiers.  A bson ObjectId is modelled by a number; str(ObjectId) is *)
(* its 24-character hexadecimal form.                                      *)

Oids == 1..MaxDecks

\* str(oid)
OidStr(n) == "64b7f3a2c9e1d4056a8b3c0" \o ToString(n)

\* ObjectId.is_valid(s): s is a 24-character hexadecimal string.
ObjectIdIsValid(s) == Len(s) = 24 /\ \E n \in Oids : OidStr(n) = s

\* ObjectId(s), defined when ObjectIdIsValid(s); bson raises InvalidId otherwise.
ObjectId(s) == CHOOSE n \in Oids : OidStr(n) = s

\* The deck_id path parameters requests are made with.
PathIds == {OidStr(n) : n \in Oids} \cup {"not-an-id"}

----------------------------------------------------------------------------
(* Schemas (src/schemas.py) and the partial-update shape (src/main.py).    *)

DeckCardFields ==
    {"scryfall_id", "name", "quantity", "mana_cost", "type_line", "colors",
     "image_small", "image_front_small", "image_back_small", "cmc",
     "color_identity"}

DeckCardDefaults ==
    [k \in DeckCardFields \ {"scryfall_id", "name"} |->
        IF k = "quantity" THEN Some(QuantityDefault) ELSE None]

\* pydantic validation of one DeckCard.
DeckCardValid(c) ==
    /\ "scryfall_id" \in DOMAIN c /\ c["scryfall_id"] # None
    /\ "name" \in DOMAIN c /\ c["name"] # None
    /\ "quantity" \in DOMAIN c =>
          /\ c["quantity"] # None
          /\ c["quantity"][1] >= QuantityMin
          /\ c["quantity"][1] <= QuantityMax

\* The DeckCard model built from a valid JSON object: defaults filled in.
DeckCard(c) ==
    [k \in DeckCardFields |-> IF k \in DOMAIN c THEN c[k] ELSE DeckCardDefaults[k]]

DeckFields ==
    {"name", "format", "description", "cards", "commander_id",
     "commander_name", "commander_colors"}

DeckDefaults ==
    [k \in DeckFields \ {"name"} |->
        CASE k = "format" -> Some("casual")
          [] k = "cards" -> Some(<<>>)
          [] OTHER -> None]

\* pydantic validation of a create body against Deck.
DeckValid(body) ==
    /\ "name" \in DOMAIN body /\ body["name"] # None
    /\ Len(body["name"][1]) >= NameMinLen
    /\ Len(body["name"][1]) <= NameMaxLen
    /\ "format" \in DOMAIN body =>
          body["format"] = None \/ body["format"][1] \in Formats
    /\ "description" \in DOMAIN body =>
          body["description"] = None
             \/ Len(body["description"][1]) <= DescriptionMaxLen
    /\ "cards" \in DOMAIN body =>
          /\ body["cards"] # None
          /\ \A i \in 1..Len(body["cards"][1]) : DeckCardValid(body["cards"][1][i])

\* The Deck model built from a valid create body.
Deck(body) ==
    [k \in DeckFields |->
        IF k \in DOMAIN body
        THEN IF k = "cards"
             THEN Some([i \in 1..Len(body[k][1]) |-> DeckCard(body[k][1][i])])
             ELSE body[k]
        ELSE DeckDefaults[k]]

DeckUpdateFields == {"name", "format", "description", "cards"}

\* pydantic validation of an update body against DeckUpdate: every field is
\* optional and unconstrained; only the cards' elements have a shape.
DeckUpdateValid(body) ==
    "cards" \in DOMAIN body /\ body["cards"] # None =>
        \A i \in 1..Len(body["cards"][1]) : DeckCardValid(body["cards"][1][i])

\* The DeckUpdate model built from a valid update body: absent fields are None.
DeckUpdate(body) ==
    [k \in DeckUpdateFields |->
        IF k \in DOMAIN body /\ body[k] # None
        THEN IF k = "cards"
             THEN Some([i \in 1..Len(body[k][1]) |-> DeckCard(body[k][1][i])])
             ELSE body[k]
        ELSE None]

\* dict with the keys holding None dropped.
DropNone(d) == Restrict(d, {k \in DOMAIN d : d[k] # None})

\* Variant: model_dump() without exclude_none, the None fields kept.
model_dump_keep_none(payload) == payload

\* payload.model_dump(exclude_none=True): None fields are dropped, in the
\* nested DeckCard models too.
model_dump_exclude_none(payload) ==
    [k \in {f \in DOMAIN payload : payload[f] # None} |->
        IF k = "cards"
        THEN Some([i \in 1..Len(payload[k][1]) |-> DropNone(payload[k][1][i])])
        ELSE payload[k]]

----------------------------------------------------------------------------
(* Request samples.                                                        *)

CardBolt ==
    ("scryfall_id" :> Some("c1")) @@ ("name" :> Some("Lightning Bolt"))
        @@ ("quantity" :> Some(4))
CardNoQty == ("scryfall_id" :> Some("c2")) @@ ("name" :> Some("Mountain"))
CardQty0 ==
    ("scryfall_id" :> Some("c1")) @@ ("name" :> Some("Lightning Bolt"))
        @@ ("quantity" :> Some(0))
CardQty100 ==
    ("scryfall_id" :> Some("c1")) @@ ("name" :> Some("Lightning Bolt"))
        @@ ("quantity" :> Some(100))

EmptyBody == [k \in {} |-> None]

CreateBodies ==
    { ("name" :> Some("Burn")) @@ ("cards" :> Some(<<CardNoQty>>)),
      "name" :> Some(""),
      "name" :> Some(Name121),
      ("name" :> Some("Burn")) @@ ("format" :> Some("bogus")),
      ("name" :> Some("Burn")) @@ ("description" :> Some(Desc501)),
      ("name" :> Some("Burn")) @@ ("cards" :> Some(<<CardQty100>>)) }

UpdateBodies ==
    { EmptyBody,
      ("name" :> None) @@ ("cards" :> None),
      "name" :> Some("Burn"),
      "name" :> Some(""),
      "format" :> Some("bogus"),
      "description" :> Some("aggro"),
      "cards" :> Some(<<CardBolt>>),
      "cards" :> Some(<<CardQty0>>) }

----------------------------------------------------------------------------
(* The store: the "deck" collection maps each stored ObjectId to its       *)
(* document (the _id field is the key).                                    *)

NoBody == EmptyBody

\* The external card service when no card request is in play.
Silent == [kind |-> "silent", status |-> 0, json |-> None]

Idle ==
    [op |-> "none", id |-> "", body |-> NoBody, at |-> 0, status |-> 0,
     detail |-> "", result |-> None, before |-> <<>>, io |-> FALSE]

Init ==
    /\ dbConfigured \in BOOLEAN
    /\ stamps \in BOOLEAN
    /\ deck = <<>>
    /\ nextOid = 1
    /\ now = 0
    /\ last = Idle
    /\ served = 0
    /\ scryfall = Silent

\* The response of a handler: `io` tells whether a store operation was issued.
Response(op, id, body, status, detail, result, io) ==
    [op |-> op, id |-> id, body |-> body, at |-> now, status |-> status,
     detail |-> detail, result |-> result, before |-> deck, io |-> io]

NotConfigured(op, id, body) ==
    Response(op, id, body, 500, "Database not configured", None, FALSE)

\* FastAPI's answer to a body that fails the declared model.
Unprocessable(op, id, body) ==
    Response(op, id, body, 422, "validation error", None, FALSE)

\* An exception no handler catches (bson.errors.InvalidId): Starlette's 500.
ServerError(op, id, body) ==
    Response(op, id, body, 500, "Internal Server Error", None, FALSE)

\* Time passes between requests (and only its reading matters to a handler).
Tick ==
    /\ now < MaxTime
    /\ now' = now + 1
    /\ UNCHANGED <<dbConfigured, stamps, deck, nextOid, last, served, scryfall>>

\* serialize_doc: _id becomes id, in its string form.  No other field of a
\* deck document holds an ObjectId, so the nested conversion (main.py 46-50)
\* leaves the rest as it is.
serialize_doc(doc) ==
    IF doc = <<>> THEN doc
    ELSE IF "_id" \in DOMAIN doc
         THEN [k \in (DOMAIN doc \ {"_id"}) \cup {"id"} |->
                  IF k = "id" THEN OidStr(doc["_id"]) ELSE doc[k]]
         ELSE doc

\* A stored document as the driver returns it.
Found(coll, oid) == [k \in DOMAIN coll[oid] \cup {"_id"} |->
                        IF k = "_id" THEN oid ELSE coll[oid][k]]

\* find_one({"_id": oid}): the document, or the empty value when absent.
find_one(coll, oid) == IF oid \in DOMAIN coll THEN Found(coll, oid) ELSE <<>>

\* create_document("deck", deck) of the database module: insert the model's
\* fields under a fresh ObjectId and return its string form.  Whether the
\* helper also stamps created_at and updated_at on the inserted document is
\* not stated, so both are allowed (the variable stamps is TRUE when it does).
create_document(coll, oid, model) ==
    LET doc == IF stamps
               THEN ("created_at" :> Some(now)) @@ ("updated_at" :> Some(now)) @@ model
               ELSE model
    IN  [inserted |-> oid :> doc @@ coll, id |-> OidStr(oid)]

create_deck(body) ==
    /\ IF ~DeckValid(body)
       THEN /\ last' = Unprocessable("create", "", body)
            /\ UNCHANGED <<deck, nextOid>>
       ELSE IF ~dbConfigured
       THEN /\ last' = NotConfigured("create", "", body)
            /\ UNCHANGED <<deck, nextOid>>
       ELSE /\ nextOid <= MaxDecks
            /\ LET deck_id == create_document(deck, nextOid, Deck(body))
               IN  /\ deck' = deck_id.inserted
                   /\ last' = Response("create", "", body, 200, "",
                                       Some([id |-> deck_id.id]), TRUE)
            /\ nextOid' = nextOid + 1
    /\ UNCHANGED <<dbConfigured, stamps, now>>

\* The sort key of sort("updated_at", -1): a missing field sorts as null, last.
SortKey(doc) == IF "updated_at" \in DOMAIN doc THEN doc["updated_at"][1] ELSE -1

\* find().sort("updated_at", -1): latest first, ties in the store's order.
RECURSIVE Sorted(_, _)
Sorted(coll, ids) ==
    IF ids = {} THEN <<>>
    ELSE LET first == CHOOSE i \in ids : \A j \in ids :
                          \/ SortKey(coll[i]) > SortKey(coll[j])
                          \/ SortKey(coll[i]) = SortKey(coll[j]) /\ i <= j
         IN  <<Found(coll, first)>> \o Sorted(coll, ids \ {first})

list_decks ==
    /\ IF ~dbConfigured
       THEN last' = NotConfigured("list", "", NoBody)
       ELSE LET docs == Sorted(deck, DOMAIN deck)
            IN  last' = Response("list", "", NoBody, 200, "",
                          Some([i \in 1..Len(docs) |-> serialize_doc(docs[i])]), TRUE)
    /\ UNCHANGED <<dbConfigured, stamps, deck, nextOid, now>>

\* Variant: the identifier parsed before the store check.
get_deck_id_first(deck_id) ==
    /\ IF ~ObjectIdIsValid(deck_id)
       THEN last' = ServerError("get", deck_id, NoBody)
       ELSE IF ~dbConfigured
       THEN last' = NotConfigured("get", deck_id, NoBody)
       ELSE LET doc == find_one(deck, ObjectId(deck_id))
            IN  IF doc = <<>>
                THEN last' = Response("get", deck_id, NoBody, 404,
                                      "Deck not found", None, TRUE)
                ELSE last' = Response("get", deck_id, NoBody, 200, "",
                                      Some(serialize_doc(doc)), TRUE)
    /\ UNCHANGED <<dbConfigured, stamps, deck, nextOid, now>>

get_deck(deck_id) ==
    /\ IF ~dbConfigured
       THEN last' = NotConfigured("get", deck_id, NoBody)
       ELSE IF ~ObjectIdIsValid(deck_id)
       THEN last' = ServerError("get", deck_id, NoBody)
       ELSE LET doc == find_one(deck, ObjectId(deck_id))
            IN  IF doc = <<>>
                THEN last' = Response("get", deck_id, NoBody, 404,
                                      "Deck not found", None, TRUE)
                ELSE last' = Response("get", deck_id, NoBody, 200, "",
                                      Some(serialize_doc(doc)), TRUE)
    /\ UNCHANGED <<dbConfigured, stamps, deck, nextOid, now>>

\* Variant: the document replaced by update_doc instead of merged with it.
ReplaceDoc(doc, update_doc) == update_doc

\* {"$set": update_doc} applied to one document.
SetDoc(doc, update_doc) ==
    [k \in DOMAIN doc \cup DOMAIN update_doc |->
        IF k \in DOMAIN update_doc THEN update_doc[k] ELSE doc[k]]

\* update_doc with the timestamp added (main.py 199-203).
Stamp(update_doc, t) == ("updated_at" :> Some(t)) @@ update_doc

\* Variant: update_one(..., upsert=True), an absent document is inserted.
update_one_upsert(coll, oid, update_doc) ==
    IF oid \notin DOMAIN coll
    THEN [matched_count |-> 0, modified_count |-> 0, coll |-> oid :> update_doc @@ coll]
    ELSE [matched_count |-> 1,
          modified_count |-> 1,
          coll |-> [coll EXCEPT ![oid] = update_doc @@ coll[oid]]]

\* update_one: matched_count, modified_count and the collection afterwards.
update_one(coll, oid, update_doc) ==
    IF oid \notin DOMAIN coll
    THEN [matched_count |-> 0, modified_count |-> 0, coll |-> coll]
    ELSE LET new == SetDoc(coll[oid], update_doc)
         IN  [matched_count |-> 1,
              modified_count |-> IF new = coll[oid] THEN 0 ELSE 1,
              coll |-> [coll EXCEPT ![oid] = new]]

update_deck(deck_id, body) ==
    /\ IF ~DeckUpdateValid(body)
       THEN /\ last' = Unprocessable("update", deck_id, body)
            /\ UNCHANGED deck
       ELSE IF ~dbConfigured
       THEN /\ last' = NotConfigured("update", deck_id, body)
            /\ UNCHANGED deck
       ELSE LET update_doc == model_dump_exclude_none(DeckUpdate(body))
            IN  IF DOMAIN update_doc = {}
                THEN /\ last' = Response("update", deck_id, body, 200, "",
                                         Some([updated |-> FALSE]), FALSE)
                     /\ UNCHANGED deck
                ELSE IF ~ObjectIdIsValid(deck_id)
                THEN /\ last' = ServerError("update", deck_id, body)
                     /\ UNCHANGED deck
                ELSE LET res == update_one(deck, ObjectId(deck_id), Stamp(update_doc, now))
                     IN  /\ deck' = res.coll
                         /\ IF res.matched_count = 0
                            THEN last' = Response("update", deck_id, body, 404,
                                                  "Deck not found", None, TRUE)
                            ELSE last' = Response("update", deck_id, body, 200, "",
                                            Some([updated |-> res.modified_count > 0]), TRUE)
    /\ UNCHANGED <<dbConfigured, stamps, nextOid, now>>

\* delete_one: deleted_count and the collection afterwards.
delete_one(coll, oid) ==
    IF oid \in DOMAIN coll
    THEN [deleted_count |-> 1, coll |-> Restrict(coll, DOMAIN coll \ {oid})]
    ELSE [deleted_count |-> 0, coll |-> coll]

delete_deck(deck_id) ==
    /\ IF ~dbConfigured
       THEN /\ last' = NotConfigured("delete", deck_id, NoBody)
            /\ UNCHANGED deck
       ELSE IF ~ObjectIdIsValid(deck_id)
       THEN /\ last' = ServerError("delete", deck_id, NoBody)
            /\ UNCHANGED deck
       ELSE LET res == delete_one(deck, ObjectId(deck_id))
            IN  /\ deck' = res.coll
                /\ last' = Response("delete", deck_id, NoBody, 200, "",
                                    Some([deleted |-> res.deleted_count > 0]), TRUE)
    /\ UNCHANGED <<dbConfigured, stamps, nextOid, now>>

CreateDeck == \E body \in CreateBodies : create_deck(body)
ListDecks == list_decks
GetDeck == \E id \in PathIds : get_deck(id)
UpdateDeck == \E id \in PathIds, body \in UpdateBodies :
                  update_deck(id, body)
DeleteDeck == \E id \in PathIds : delete_deck(id)

\* One more request is taken while the run's budget lasts.
Serve == served < MaxRequests /\ served' = served + 1 /\ UNCHANGED scryfall

Next ==
    \/ Tick
    \/ Serve /\ CreateDeck
    \/ Serve /\ ListDecks
    \/ Serve /\ GetDeck
    \/ Serve /\ UpdateDeck
    \/ Serve /\ DeleteDeck

Spec == Init /\ [][Next]_vars

----------------------------------------------------------------------------
(* Scryfall proxy and card data mapper.  A card record is a dict: its      *)
(* image_uris is a dict from size to URL, its card_faces a list of face    *)
(* dicts.                                                                  *)

\* Faces a sampled card record has at most.
MaxFaces == 2
\* Records a sampled search page holds at most.
MaxData == 2

\* Python truth of an Optional[str], an Optional[dict] and an Optional[list].
TruthyStr(v) == v # None /\ v[1] # ""
TruthyDict(v) == v # None /\ DOMAIN v[1] # {}
TruthyList(v) == v # None /\ Len(v[1]) > 0

_face_images(face) ==
    [small |-> IF TruthyDict(Get(face, "image_uris"))
               THEN Get(face["image_uris"][1], "small") ELSE None,
     normal |-> IF TruthyDict(Get(face, "image_uris"))
                THEN Get(face["image_uris"][1], "normal") ELSE None]

NoImages == [small |-> None, normal |-> None]

\* Front images (main.py 74-81).
FrontImages(card) ==
    IF TruthyDict(Get(card, "image_uris"))
    THEN [small |-> Get(card["image_uris"][1], "small"),
          normal |-> Get(card["image_uris"][1], "normal")]
    ELSE IF TruthyList(Get(card, "card_faces")) /\ Len(card["card_faces"][1]) > 0
         THEN _face_images(card["card_faces"][1][1])
         ELSE NoImages

\* Variant: the back images read from the first face.
BackImagesFirstFace(card) ==
    IF TruthyList(Get(card, "card_faces")) /\ Len(card["card_faces"][1]) > 1
    THEN _face_images(card["card_faces"][1][1])
    ELSE NoImages

\* Back images (main.py 84-88).
BackImages(card) ==
    IF TruthyList(Get(card, "card_faces")) /\ Len(card["card_faces"][1]) > 1
    THEN _face_images(card["card_faces"][1][2])
    ELSE NoImages

\* A text field: the card's own value, else the first face's (main.py 91-101).
TextField(card, k) ==
    IF ~TruthyStr(Get(card, k)) /\ TruthyList(Get(card, "card_faces"))
    THEN Get(card["card_faces"][1][1], k)
    ELSE Get(card, k)

map_scryfall_card(card) ==
    LET front == FrontImages(card)
        back == BackImages(card)
    IN  [scryfall_id |-> Get(card, "id"),
         name |-> Get(card, "name"),
         mana_cost |-> TextField(card, "mana_cost"),
         type_line |-> TextField(card, "type_line"),
         oracle_text |-> TextField(card, "oracle_text"),
         colors |-> Get(card, "colors"),
         image_small |-> front.small,
         image_front_small |-> front.small,
         image_front_normal |-> front.normal,
         image_back_small |-> back.small,
         image_back_normal |-> back.normal,
         has_back |-> TruthyStr(back.small) \/ TruthyStr(back.normal)]

(* Sampled records.  URLs carry the place they come from.                  *)

UrisSamples(p) ==
    { None,
      Some(("small" :> Some(p \o "/small.jpg")) @@ ("normal" :> Some(p \o "/normal.jpg"))),
      Some(EmptyBody),
      Some("small" :> Some("")),
      Some("large" :> Some(p \o "/large.jpg")) }

WithUris(d, u) == IF u = None THEN d ELSE ("image_uris" :> u) @@ d

FaceText(p) ==
    ("name" :> Some(p)) @@ ("mana_cost" :> Some("{1}{" \o p \o "}"))
        @@ ("type_line" :> Some("Creature " \o p))
        @@ ("oracle_text" :> Some("Transform " \o p))

FaceSamples(p) == {WithUris(FaceText(p), u) : u \in UrisSamples(p)}

FaceName(i) == "face" \o ToString(i - 1)

\* Lists of n faces.
RECURSIVE FaceLists(_)
FaceLists(n) ==
    IF n = 0 THEN {<<>>}
    ELSE {Append(fs, f) : fs \in FaceLists(n - 1), f \in FaceSamples(FaceName(n))}

CardTexts ==
    { ("id" :> Some("c1")) @@ ("name" :> Some("Lightning Bolt"))
          @@ ("mana_cost" :> Some("{R}")) @@ ("type_line" :> Some("Instant"))
          @@ ("oracle_text" :> Some("3 damage")) @@ ("colors" :> Some(<<"R">>)),
      ("id" :> Some("c3")) @@ ("name" :> Some("Delver")) @@ ("mana_cost" :> Some("")) }

CardSamples ==
    {WithUris(t, u) : t \in CardTexts, u \in UrisSamples("card")}
    \cup {("card_faces" :> Some(fs)) @@ WithUris(t, u) :
             t \in CardTexts, u \in UrisSamples("card"),
             fs \in UNION {FaceLists(n) : n \in 0..MaxFaces}}

\* A few records for search pages.
PageCards ==
    {c \in CardSamples :
        /\ c["id"] = Some("c3")
        /\ TruthyDict(Get(c, "image_uris")) => "normal" \in DOMAIN c["image_uris"][1]
        /\ "card_faces" \in DOMAIN c =>
              /\ Len(c["card_faces"][1]) = 2
              /\ \A i \in 1..2 : /\ "image_uris" \in DOMAIN c["card_faces"][1][i]
                                 /\ "normal" \in DOMAIN c["card_faces"][1][i]["image_uris"][1]}

RECURSIVE Pages(_)
Pages(n) ==
    IF n = 0 THEN {<<>>}
    ELSE Pages(n - 1) \cup
         {Append(p, c) : p \in {q \in Pages(n - 1) : Len(q) = n - 1}, c \in PageCards}

SearchLists ==
    {("object" :> Some("list")) @@ ("total_cards" :> Some(Len(p)))
        @@ ("has_more" :> Some(FALSE)) @@ ("data" :> Some(p)) : p \in Pages(MaxData)}
    \cup {("object" :> Some("list")) @@ ("data" :> Some(<<>>))}

\* What the external service does with the request of this run: no answer
\* within the timeout, or a status with a body (None: not parseable as JSON).
ScryfallOutcomes ==
    {[kind |-> "timeout", status |-> 0, json |-> None]}
    \cup {[kind |-> "response", status |-> 200, json |-> Some(c)] : c \in CardSamples}
    \cup {[kind |-> "response", status |-> 200, json |-> Some(l)] : l \in SearchLists}
    \cup {[kind |-> "response", status |-> st, json |-> j] :
             st \in {404, 429, 503},
             j \in {None, Some(EmptyBody), Some("details" :> Some("No cards found"))}}
    \cup {[kind |-> "response", status |-> 200, json |-> None]}

CardResponse(op, arg, status, detail, result) ==
    [op |-> op, id |-> arg.id, body |-> arg.params, at |-> now, status |-> status,
     detail |-> detail, result |-> result, before |-> deck, io |-> FALSE]

\* requests.get(..., timeout=10) raised requests.Timeout.
GatewayTimeout(op, arg) ==
    CardResponse(op, arg, 504, "Scryfall request timed out", None)

\* An exception the handler does not catch: Starlette's 500.
Uncaught(op, arg) ==
    CardResponse(op, arg, 500, "Internal Server Error", None)

search_cards(q, page) ==
    LET arg == [id |-> "", params |-> ("q" :> Some(q)) @@ ("page" :> Some(page))]
        resp == scryfall
    IN  /\ last' =
              IF resp.kind = "timeout"
              THEN GatewayTimeout("search", arg)
              ELSE IF resp.status # 200
              THEN CardResponse("search", arg, resp.status,
                       IF resp.json # None /\ "details" \in DOMAIN resp.json[1]
                       THEN resp.json[1]["details"][1]
                       ELSE "Scryfall error",
                       None)
              ELSE IF resp.json = None
              THEN Uncaught("search", arg)
              ELSE LET data == resp.json[1]
                       records == IF "data" \in DOMAIN data THEN data["data"][1] ELSE <<>>
                   IN  CardResponse("search", arg, 200, "",
                           Some([object |-> "list",
                                 total_cards |-> Get(data, "total_cards"),
                                 has_more |-> IF "has_more" \in DOMAIN data
                                              THEN data["has_more"] ELSE Some(FALSE),
                                 next_page |-> Get(data, "next_page"),
                                 data |-> [i \in 1..Len(records) |->
                                              map_scryfall_card(records[i])]]))
        /\ UNCHANGED <<dbConfigured, stamps, deck, nextOid, now, served, scryfall>>

get_card(scryfall_id) ==
    LET arg == [id |-> scryfall_id, params |-> NoBody]
        resp == scryfall
    IN  /\ last' =
              IF resp.kind = "timeout"
              THEN Uncaught("card", arg)
              ELSE IF resp.status # 200
              THEN CardResponse("card", arg, resp.status, "Card not found", None)
              ELSE IF resp.json = None
              THEN Uncaught("card", arg)
              ELSE CardResponse("card", arg, 200, "",
                                Some(map_scryfall_card(resp.json[1])))
        /\ UNCHANGED <<dbConfigured, stamps, deck, nextOid, now, served, scryfall>>

SearchCards == \E q \in {"bolt", ""}, page \in {1, 2} : search_cards(q, page)
GetCard == \E id \in {"c1", "c3"} : get_card(id)

InitCards ==
    /\ dbConfigured \in BOOLEAN
    /\ stamps = FALSE
    /\ deck = <<>>
    /\ nextOid = 1
    /\ now = 0
    /\ last = Idle
    /\ served = 0
    /\ scryfall \in ScryfallOutcomes

NextCards == SearchCards \/ GetCard

SpecCards == InitCards /\ [][NextCards]_vars

----------------------------------------------------------------------------
(* Vocabulary of the properties.                                           *)

DeckOps == {"create", "list", "get", "update", "delete"}

\* The fields of the partial-update shape present in a body.
Present(body) == DOMAIN body \cap DeckUpdateFields

\* Those present with a value (JSON null is no value).
Supplied(body) == {k \in Present(body) : body[k] # None}

\* A deck with identifier id is stored in coll.
Stored(coll, id) == ObjectIdIsValid(id) /\ ObjectId(id) \in DOMAIN coll

\* The body of the last request fails its declared shape.
Malformed ==
    \/ last.op = "create" /\ ~DeckValid(last.body)
    \/ last.op = "update" /\ ~DeckUpdateValid(last.body)

\* The store is as it was before the last request.
StoreUnchanged == deck = last.before

\* Deck shape: name 1-120 characters, format enumerated, description <= 500.
DeckShapeOk(doc) ==
    /\ doc["name"] # None
    /\ Len(doc["name"][1]) >= 1 /\ Len(doc["name"][1]) <= 120
    /\ doc["format"] # None /\ doc["format"][1] \in Formats
    /\ doc["description"] = None \/ Len(doc["description"][1]) <= 500

----------------------------------------------------------------------------
(* C1 as stated: an Update whose body has none of name, format,            *)
(* description, cards returns {updated: false} and writes nothing.         *)
C1_Original ==
    last.op = "update" /\ Present(last.body) = {} =>
        /\ last.status = 200
        /\ last.result = Some([updated |-> FALSE])
        /\ StoreUnchanged

(* C1 amended: with the store configured, an Update whose body has none    *)
(* of name, format, description, cards returns {updated: false}, issues    *)
(* no store operation and leaves every stored deck (fields and updated_at) *)
(* as it was.                                                              *)
C1_Amended ==
    dbConfigured /\ last.op = "update" /\ Present(last.body) = {} =>
        /\ last.status = 200
        /\ last.result = Some([updated |-> FALSE])
        /\ ~last.io
        /\ StoreUnchanged

C1_Witness ==
    /\ dbConfigured
    /\ last.op = "update" /\ Present(last.body) = {}
    /\ Stored(last.before, last.id)
    /\ "updated_at" \in DOMAIN deck[ObjectId(last.id)]
    /\ last.at > deck[ObjectId(last.id)]["updated_at"][1]
    /\ last.result = Some([updated |-> FALSE])

(* C2 as stated: with the store configured, an Update of an identifier no  *)
(* stored deck has fails with 404 for every body, the store unchanged.     *)
C2_Original ==
    dbConfigured /\ last.op = "update" /\ ~Stored(last.before, last.id) =>
        last.status = 404 /\ StoreUnchanged

(* C2 amended: with the store configured, an Update of an identifier no    *)
(* stored deck has leaves the store unchanged and fails with 404 when the  *)
(* identifier is structurally valid and the body is well-formed and        *)
(* supplies at least one non-null field; a malformed body is rejected      *)
(* with 422, a body supplying no non-null field returns {updated: false},  *)
(* and a structurally invalid identifier with a non-empty body fails with  *)
(* the unhandled invalid-identifier error (500).                           *)
C2_Amended ==
    dbConfigured /\ last.op = "update" /\ ~Stored(last.before, last.id) =>
        /\ StoreUnchanged
        /\ CASE Malformed -> last.status = 422
             [] Supplied(last.body) = {} ->
                    last.status = 200 /\ last.result = Some([updated |-> FALSE])
             [] ~ObjectIdIsValid(last.id) ->
                    last.status = 500 /\ last.detail = "Internal Server Error"
             [] OTHER -> last.status = 404 /\ last.detail = "Deck not found"

C2_Witness ==
    /\ dbConfigured /\ last.op = "update"
    /\ ObjectIdIsValid(last.id) /\ ~Stored(last.before, last.id)
    /\ last.before # <<>>
    /\ Supplied(last.body) # {}
    /\ last.status = 404

(* C3: every stored deck satisfies the Deck shape (name 1-120 characters,  *)
(* format one of the ten, description at most 500 characters), and a       *)
(* Create or Update whose body violates these bounds is rejected with a    *)
(* validation error, the store unchanged.                                  *)
C3_Claim ==
    /\ \A oid \in DOMAIN deck : DeckShapeOk(deck[oid])
    /\ /\ dbConfigured
       /\ last.op \in {"create", "update"}
       /\ \/ "name" \in Supplied(last.body)
                /\ ~(Len(last.body["name"][1]) \in 1..120)
          \/ "format" \in Supplied(last.body)
                /\ last.body["format"][1] \notin Formats
          \/ "description" \in Supplied(last.body)
                /\ Len(last.body["description"][1]) > 500
       => last.status = 422 /\ StoreUnchanged

(* C4: a successful Update returns updated = true exactly when some        *)
(* supplied field value differs from the value stored before the call.     *)
C4_Claim ==
    last.op = "update" /\ last.status = 200 =>
        last.result =
            Some([updated |->
                    /\ Stored(last.before, last.id)
                    /\ \E k \in Supplied(last.body) :
                          model_dump_exclude_none(DeckUpdate(last.body))[k]
                              # last.before[ObjectId(last.id)][k]])

(* C5: an Update of an existing deck sets each supplied field to the       *)
(* supplied value and updated_at to the current time, and leaves every     *)
(* other field of that deck and every other deck unchanged; an Update      *)
(* that supplies nothing changes nothing.                                  *)
C5_UpdateFrame ==
    last.op = "update" /\ last.status = 200 /\ Stored(last.before, last.id) =>
        LET oid == ObjectId(last.id)
            old == last.before[oid]
            new == deck[oid]
        IN  /\ DOMAIN deck = DOMAIN last.before
            /\ \A o \in DOMAIN deck \ {oid} : deck[o] = last.before[o]
            /\ IF Supplied(last.body) = {}
               THEN new = old
               ELSE /\ DOMAIN new = DOMAIN old \cup {"updated_at"}
                    /\ new["updated_at"] = Some(last.at)
                    /\ \A k \in DOMAIN old \ (Supplied(last.body) \cup {"updated_at"}) :
                          new[k] = old[k]
                    /\ \A k \in Supplied(last.body) \ {"cards"} : new[k] = last.body[k]
                    /\ "cards" \in Supplied(last.body) =>
                          /\ Len(new["cards"][1]) = Len(last.body["cards"][1])
                          /\ \A i \in 1..Len(new["cards"][1]) :
                                \A f \in DOMAIN last.body["cards"][1][i] :
                                    new["cards"][1][i][f] = last.body["cards"][1][i][f]

C5_Witness ==
    /\ last.op = "update" /\ last.status = 200
    /\ Supplied(last.body) = {"description"}
    /\ Stored(last.before, last.id)
    /\ Cardinality(DOMAIN deck) = 2
    /\ deck[ObjectId(last.id)]["cards"] = last.before[ObjectId(last.id)]["cards"]
    /\ Len(deck[ObjectId(last.id)]["cards"][1]) > 0
    /\ last.at > 0
    /\ deck[ObjectId(last.id)]["updated_at"] = Some(last.at)

(* C6: with the store configured, Get returns 404 both for a valid         *)
(* identifier no stored deck has and for a structurally invalid one, and   *)
(* the serialized deck, its id the identifier's string form, otherwise.    *)
C6_Claim ==
    dbConfigured /\ last.op = "get" =>
        IF Stored(last.before, last.id)
        THEN /\ last.status = 200
             /\ last.result[1]["id"] = last.id
             /\ \A k \in DOMAIN deck[ObjectId(last.id)] :
                    last.result[1][k] = deck[ObjectId(last.id)][k]
        ELSE last.status = 404

(* C7: with the store configured, Delete never yields an error: a stored   *)
(* deck is removed, no other changed, with {deleted: true}; any other      *)
(* identifier gives {deleted: false} and an unchanged store.               *)
C7_Claim ==
    dbConfigured /\ last.op = "delete" =>
        /\ last.status = 200
        /\ IF Stored(last.before, last.id)
           THEN /\ last.result = Some([deleted |-> TRUE])
                /\ DOMAIN deck = DOMAIN last.before \ {ObjectId(last.id)}
                /\ \A o \in DOMAIN deck : deck[o] = last.before[o]
           ELSE /\ last.result = Some([deleted |-> FALSE])
                /\ StoreUnchanged

(* C9 as stated: with the store not configured, each deck operation fails  *)
(* with the 500 "not configured" error for every input, no store           *)
(* operation attempted and no other error returned.                        *)
C9_Original ==
    ~dbConfigured /\ last.op \in DeckOps =>
        /\ last.status = 500 /\ last.detail = "Database not configured"
        /\ ~last.io
        /\ StoreUnchanged

(* C9 amended: with the store not configured, no deck operation issues a   *)
(* store operation; a Create or Update whose body fails shape validation   *)
(* is rejected with the validation error (422) before the handler runs,    *)
(* and every other request fails with the 500 "not configured" error,      *)
(* before the identifier is parsed and before any lookup (so never         *)
(* not-found and never invalid-identifier).                                *)
C9_Amended ==
    ~dbConfigured /\ last.op \in DeckOps =>
        /\ ~last.io
        /\ StoreUnchanged
        /\ IF Malformed
           THEN last.status = 422
           ELSE last.status = 500 /\ last.detail = "Database not configured"

C9_Witness ==
    /\ ~dbConfigured
    /\ last.op = "get" /\ last.id = "not-an-id"
    /\ last.status = 500 /\ last.detail = "Database not configured"

(* C8: a call to the external card service that exceeds the timeout,       *)
(* made by Search or by GetByID, is answered with status 504 and the       *)
(* detail "Scryfall request timed out".                                    *)
C8_Claim ==
    last.op \in {"search", "card"} /\ scryfall.kind = "timeout" =>
        last.status = 504 /\ last.detail = "Scryfall request timed out"

\* The image_uris of a record or face (None when absent) and one of its URLs.
UrisOf(d) == Get(d, "image_uris")
Url(uris, size) == IF uris = None THEN None ELSE Get(uris[1], size)
FacesOf(card) ==
    IF Get(card, "card_faces") = None THEN <<>> ELSE card["card_faces"][1]

\* The mapped card m has the images C10 states for the record card.
ImagesAsStated(card, m) ==
    LET faces == FacesOf(card)
        front == IF UrisOf(card) # None THEN UrisOf(card)
                 ELSE IF Len(faces) >= 1 THEN UrisOf(faces[1]) ELSE None
        back == IF Len(faces) >= 2 THEN UrisOf(faces[2]) ELSE None
    IN  /\ m.image_front_small = Url(front, "small")
        /\ m.image_front_normal = Url(front, "normal")
        /\ m.image_back_small = Url(back, "small")
        /\ m.image_back_normal = Url(back, "normal")
        /\ m.has_back = (m.image_back_small # None \/ m.image_back_normal # None)

\* The same with Python's truth: an empty image_uris mapping counts as not
\* present, an empty URL as no back image.
ImagesAsCoded(card, m) ==
    LET faces == FacesOf(card)
        front == IF UrisOf(card) # None /\ DOMAIN UrisOf(card)[1] # {}
                 THEN UrisOf(card)
                 ELSE IF Len(faces) >= 1 THEN UrisOf(faces[1]) ELSE None
        back == IF Len(faces) >= 2 THEN UrisOf(faces[2]) ELSE None
    IN  /\ m.image_front_small = Url(front, "small")
        /\ m.image_front_normal = Url(front, "normal")
        /\ m.image_back_small = Url(back, "small")
        /\ m.image_back_normal = Url(back, "normal")
        /\ m.has_back = (\/ m.image_back_small \notin {None, Some("")}
                         \/ m.image_back_normal \notin {None, Some("")})

(* C10 as stated: front images from the top-level image_uris when          *)
(* present, else from face[0] when a face exists, else null; back images   *)
(* from face[1] when two faces exist, else null; has_back iff a back       *)
(* image is non-null.                                                      *)
C10_Original ==
    /\ last.op = "card" /\ last.status = 200 =>
          ImagesAsStated(scryfall.json[1], last.result[1])
    /\ last.op = "search" /\ last.status = 200 =>
          \A i \in 1..Len(last.result[1].data) :
              ImagesAsStated(scryfall.json[1]["data"][1][i], last.result[1].data[i])

(* C10 amended: front images come from the top-level image_uris when it    *)
(* is present and non-empty, else from face[0]'s image_uris when a face    *)
(* exists, else are null; back images come from face[1]'s image_uris only  *)
(* when two faces exist, else are null; has_back is true iff at least one  *)
(* back image is a non-empty string.                                       *)
C10_Amended ==
    /\ last.op = "card" /\ last.status = 200 =>
          ImagesAsCoded(scryfall.json[1], last.result[1])
    /\ last.op = "search" /\ last.status = 200 =>
          \A i \in 1..Len(last.result[1].data) :
              ImagesAsCoded(scryfall.json[1]["data"][1][i], last.result[1].data[i])

C10_Witness ==
    /\ last.op = "card" /\ last.status = 200
    /\ "image_uris" \notin DOMAIN scryfall.json[1]
    /\ Len(FacesOf(scryfall.json[1])) = 2
    /\ last.result[1].image_front_small = Some("face0/small.jpg")
    /\ last.result[1].image_front_normal = Some("face0/normal.jpg")
    /\ last.result[1].image_back_small = Some("face1/small.jpg")
    /\ last.result[1].image_back_normal = Some("face1/normal.jpg")
    /\ last.result[1].has_back

====
